---- MODULE Spec2Model ----
(***************************************************************************)
(* Shape-level model of parametricSN/models/sn_top_models.py.              *)
(*                                                                         *)
(* A tensor is abstracted to its shape (a sequence of positive integers)   *)
(* and, inside the residual blocks, to the sequence of operations that     *)
(* produced its contents.  A module is a record naming the torch layer and *)
(* the sizes it was built with.  Applying a layer to a shape either yields *)
(* the layer's output shape or raises the exception torch raises for that  *)
(* shape.  Constructors are whole actions; every forward method is stepped *)
(* one source statement at a time, the position being the source line.     *)
(***************************************************************************)
EXTENDS Integers, Sequences, FiniteSets, TLC

VARIABLES cls, args, self, training, phase, inp, frame, made, frozen, count

vars == <<cls, args, self, training, phase, inp, frame, made, frozen, count>>

(***************************************************************************)
(* Bounds of the explored inputs.                                          *)
(***************************************************************************)
MaxBatch   == 2    \* batch sizes 1..MaxBatch
MaxSide    == 2    \* spatial sizes H, W, M_coefficient, N_coefficient
MaxCoef    == 2    \* n_coefficients / in_channels
MaxK       == 2    \* widening factor k of sn_CNN
MaxN       == 2    \* blocks per layer n of sn_CNN (0..MaxN)
MaxClasses == 2    \* num_classes
MaxPlanes  == 2    \* inplanes / planes of a block built on its own
MaxStride  == 2    \* stride of a block or of a _make_layer call
MaxDepth   == 16   \* depth of WideResNet16_8 (at most MaxDepth)
MaxWidth   == 2    \* width of WideResNet16_8
MaxFrozen  == 1    \* parameters with requires_grad = False

Pos(n) == 1..n

(***************************************************************************)
(* Results of applying a layer: a shape, or the exception raised.          *)
(***************************************************************************)
Ok(shape)   == [shape |-> shape, err |-> "none"]
Raise(kind) == [shape |-> <<>>, err |-> kind]

RECURSIVE Prod(_)
Prod(s) == IF s = <<>> THEN 1 ELSE Head(s) * Prod(Tail(s))

(***************************************************************************)
(* torch.nn layers, as the source constructs them.                         *)
(***************************************************************************)
BatchNorm2d(num_features, affine) ==
    [op |-> "BatchNorm2d", num_features |-> num_features, affine |-> affine]

Conv2d(cin, cout, kernel_size, stride, padding) ==
    [op |-> "Conv2d", cin |-> cin, cout |-> cout, kernel_size |-> kernel_size,
     stride |-> stride, padding |-> padding]

Linear(in_features, out_features) ==
    [op |-> "Linear", in_features |-> in_features, out_features |-> out_features]

ReLU(inplace) == [op |-> "ReLU", inplace |-> inplace]

Dropout == [op |-> "Dropout", inplace |-> FALSE]

AdaptiveAvgPool2d(output_size) ==
    [op |-> "AdaptiveAvgPool2d", output_size |-> output_size]

conv3x3(in_planes, out_planes, stride) == Conv2d(in_planes, out_planes, 3, stride, 1)

conv1x1(in_planes, out_planes, stride) == Conv2d(in_planes, out_planes, 1, stride, 0)

(***************************************************************************)
(* What each layer does to a shape.  BatchNorm2d checks the rank, then (in *)
(* training mode) that every channel has more than one value, then the     *)
(* channel count.  Conv2d and Linear check the size they were built for.   *)
(***************************************************************************)
ConvOut(size, m) == ((size + 2 * m.padding - m.kernel_size) \div m.stride) + 1

Apply(m, x, train) ==
    CASE m.op = "BatchNorm2d" ->
            IF Len(x) # 4 THEN Raise("ValueError")
            ELSE IF train /\ x[1] * x[3] * x[4] = 1 THEN Raise("ValueError")
            ELSE IF x[2] # m.num_features THEN Raise("RuntimeError")
            ELSE Ok(x)
      [] m.op = "Conv2d" ->
            IF Len(x) # 4 THEN Raise("RuntimeError")
            ELSE IF x[2] # m.cin THEN Raise("RuntimeError")
            ELSE IF x[3] + 2 * m.padding < m.kernel_size
                    \/ x[4] + 2 * m.padding < m.kernel_size THEN Raise("RuntimeError")
            ELSE Ok(<<x[1], m.cout, ConvOut(x[3], m), ConvOut(x[4], m)>>)
      [] m.op = "Linear" ->
            IF Len(x) < 1 THEN Raise("RuntimeError")
            ELSE IF x[Len(x)] # m.in_features THEN Raise("RuntimeError")
            ELSE Ok([x EXCEPT ![Len(x)] = m.out_features])
      [] m.op = "AdaptiveAvgPool2d" ->
            IF Len(x) # 4 THEN Raise("RuntimeError")
            ELSE Ok(<<x[1], x[2], m.output_size, m.output_size>>)
      [] OTHER -> Ok(x)

\* x.view(x.size(0), -1) and x.reshape(x.shape[0], -1)
Flatten(x) == <<x[1], Prod(Tail(x))>>

\* nn.Sequential of plain layers: each layer gets the previous one's output
RECURSIVE ApplySeq(_, _, _)
ApplySeq(ms, x, train) ==
    IF ms = <<>> THEN Ok(x)
    ELSE LET r == Apply(Head(ms), x, train)
         IN  IF r.err # "none" THEN r ELSE ApplySeq(Tail(ms), r.shape, train)

\* an in-place addition needs the right operand broadcastable to the left one
Broadcastable(src, dst) ==
    /\ Len(src) <= Len(dst)
    /\ \A i \in 1..Len(src) :
          LET d == dst[Len(dst) - Len(src) + i]
          IN  src[i] = d \/ src[i] = 1


Sequential(layers) == [op |-> "Sequential", layers |-> layers]

(***************************************************************************)
(* A call frame of a block's forward: the tensors alive in the call (mem), *)
(* the locals as indices into mem (0: not yet bound), the source line to   *)
(* execute next (0: the call has ended) and the exception raised, if any.  *)
(* A tensor carries its shape and the operations that produced its         *)
(* contents, so that an in-place operation is seen through every alias.    *)
(***************************************************************************)
Tensor(shape, ops) == [shape |-> shape, ops |-> ops]

NoFrame == [line |-> 0, err |-> "none"]

NewFrame(x, first) ==
    [line |-> first, err |-> "none", mem |-> <<Tensor(x, <<"x">>)>>,
     x |-> 1, out |-> 0, skip |-> 0, ret |-> 0]

Exit(f, kind) == [f EXCEPT !.line = 0, !.err = kind]

\* self.<name>(mem[src]): the result is a new tensor, or mem[src] itself
\* when the module works in place; ret is the index of the result
CallModule(f, m, name, src, train) ==
    LET t == f.mem[src]
        r == IF m.op = "Sequential" THEN ApplySeq(m.layers, t.shape, train)
             ELSE Apply(m, t.shape, train)
    IN  IF r.err # "none" THEN Exit(f, r.err)
        ELSE IF m.op \in {"ReLU", "Dropout"} /\ m.inplace
        THEN [f EXCEPT !.mem[src] = Tensor(r.shape, Append(t.ops, name)), !.ret = src]
        ELSE [f EXCEPT !.mem = Append(@, Tensor(r.shape, Append(t.ops, name))),
                       !.ret = Len(f.mem) + 1]

\* mem[dst] += mem[src]
AddInPlace(f, dst, src) ==
    LET a == f.mem[dst]
        b == f.mem[src]
    IN  IF ~Broadcastable(b.shape, a.shape) THEN Exit(f, "RuntimeError")
        ELSE [f EXCEPT !.mem[dst] =
                  Tensor(a.shape, a.ops \o <<"add(">> \o b.ops \o <<")">>)]

\* continue at `line` unless the statement raised
Goto(f, line) == IF f.line = 0 THEN f ELSE [f EXCEPT !.line = line]

\* <local> = <result of the call>, then continue at `line`
Assign(g, local, line) ==
    IF g.line = 0 THEN g ELSE [g EXCEPT ![local] = g.ret, !.line = line]

(***************************************************************************)
(* BasicBlock                                                              *)
(***************************************************************************)
\* downsample is <<>> for None and <<module>> for a module
BasicBlock_init(inplanes, planes, stride, downsample) ==
    [cls        |-> "BasicBlock",
     conv1      |-> conv3x3(inplanes, planes, stride),
     bn1        |-> BatchNorm2d(planes, TRUE),
     relu       |-> ReLU(TRUE),
     conv2      |-> conv3x3(planes, planes, 1),
     bn2        |-> BatchNorm2d(planes, TRUE),
     downsample |-> downsample,
     stride     |-> stride]

\* variant of forward: the relu after the addition is left out
BasicBlock_forward_NoSkipRelu(blk, f, train) ==
    CASE f.line = 79 -> [f EXCEPT !.skip = f.x, !.line = 81]
      [] f.line = 81 -> LET g == CallModule(f, blk.conv1, "conv1", f.x, train)
                        IN  Assign(g, "out", 82)
      [] f.line = 82 -> LET g == CallModule(f, blk.bn1, "bn1", f.out, train)
                        IN  Assign(g, "out", 83)
      [] f.line = 83 -> LET g == CallModule(f, blk.relu, "relu", f.out, train)
                        IN  Assign(g, "out", 85)
      [] f.line = 85 -> LET g == CallModule(f, blk.conv2, "conv2", f.out, train)
                        IN  Assign(g, "out", 86)
      [] f.line = 86 -> LET g == CallModule(f, blk.bn2, "bn2", f.out, train)
                        IN  Assign(g, "out", 88)
      [] f.line = 88 -> IF blk.downsample # <<>>
                        THEN LET g == CallModule(f, blk.downsample[1], "downsample",
                                                 f.x, train)
                             IN  Assign(g, "skip", 91)
                        ELSE Goto(f, 91)
      [] f.line = 91 -> Goto(AddInPlace(f, f.out, f.skip), 94)
      [] f.line = 94 -> [f EXCEPT !.ret = f.out, !.line = 0]

\* one statement of BasicBlock.forward
BasicBlock_forward_step(blk, f, train) ==
    CASE f.line = 79 -> [f EXCEPT !.skip = f.x, !.line = 81]
      [] f.line = 81 -> LET g == CallModule(f, blk.conv1, "conv1", f.x, train)
                        IN  Assign(g, "out", 82)
      [] f.line = 82 -> LET g == CallModule(f, blk.bn1, "bn1", f.out, train)
                        IN  Assign(g, "out", 83)
      [] f.line = 83 -> LET g == CallModule(f, blk.relu, "relu", f.out, train)
                        IN  Assign(g, "out", 85)
      [] f.line = 85 -> LET g == CallModule(f, blk.conv2, "conv2", f.out, train)
                        IN  Assign(g, "out", 86)
      [] f.line = 86 -> LET g == CallModule(f, blk.bn2, "bn2", f.out, train)
                        IN  Assign(g, "out", 88)
      [] f.line = 88 -> IF blk.downsample # <<>>
                        THEN LET g == CallModule(f, blk.downsample[1], "downsample",
                                                 f.x, train)
                             IN  Assign(g, "skip", 91)
                        ELSE Goto(f, 91)
      [] f.line = 91 -> Goto(AddInPlace(f, f.out, f.skip), 92)
      [] f.line = 92 -> LET g == CallModule(f, blk.relu, "relu", f.out, train)
                        IN  Assign(g, "out", 94)
      [] f.line = 94 -> [f EXCEPT !.ret = f.out, !.line = 0]

BasicBlock_first == 79

(***************************************************************************)
(* BasicBlockWRN16_8                                                       *)
(***************************************************************************)
BasicBlockWRN16_8_init(inplanes, planes, stride) ==
    LET base == [cls     |-> "BasicBlockWRN16_8",
                 bn1     |-> BatchNorm2d(inplanes, TRUE),
                 conv1   |-> conv3x3(inplanes, planes, stride),
                 dropout |-> Dropout,
                 bn2     |-> BatchNorm2d(planes, TRUE),
                 conv2   |-> conv3x3(planes, planes, 1),
                 relu    |-> ReLU(TRUE)]
    IN  IF stride # 1 \/ inplanes # planes
        THEN [a \in DOMAIN base \cup {"shortcut", "use_conv1x1"} |->
                 CASE a = "shortcut"    -> conv1x1(inplanes, planes, stride)
                   [] a = "use_conv1x1" -> TRUE
                   [] OTHER             -> base[a]]
        ELSE [a \in DOMAIN base \cup {"use_conv1x1"} |->
                 IF a = "use_conv1x1" THEN FALSE ELSE base[a]]


\* variant of forward: the shortcut convolution is applied to the raw input
BasicBlockWRN16_8_forward_ShortcutFromInput(blk, f, train) ==
    CASE f.line = 222 -> Assign(CallModule(f, blk.bn1, "bn1", f.x, train), "out", 223)
      [] f.line = 223 -> Assign(CallModule(f, blk.relu, "relu", f.out, train), "out", 225)
      [] f.line = 225 -> IF blk.use_conv1x1
                         THEN Assign(CallModule(f, blk.shortcut, "shortcut", f.x, train),
                                     "skip", 230)
                         ELSE [f EXCEPT !.skip = f.x, !.line = 230]
      [] f.line = 230 -> Assign(CallModule(f, blk.conv1, "conv1", f.out, train), "out", 232)
      [] f.line = 232 -> Assign(CallModule(f, blk.bn2, "bn2", f.out, train), "out", 233)
      [] f.line = 233 -> Assign(CallModule(f, blk.relu, "relu", f.out, train), "out", 234)
      [] f.line = 234 -> Assign(CallModule(f, blk.dropout, "dropout", f.out, train),
                                "out", 235)
      [] f.line = 235 -> Assign(CallModule(f, blk.conv2, "conv2", f.out, train), "out", 237)
      [] f.line = 237 -> Goto(AddInPlace(f, f.out, f.skip), 239)
      [] f.line = 239 -> [f EXCEPT !.ret = f.out, !.line = 0]

\* one statement of BasicBlockWRN16_8.forward
BasicBlockWRN16_8_forward_step(blk, f, train) ==
    CASE f.line = 222 -> Assign(CallModule(f, blk.bn1, "bn1", f.x, train), "out", 223)
      [] f.line = 223 -> Assign(CallModule(f, blk.relu, "relu", f.out, train), "out", 225)
      [] f.line = 225 -> IF blk.use_conv1x1
                         THEN Assign(CallModule(f, blk.shortcut, "shortcut", f.out, train),
                                     "skip", 230)
                         ELSE [f EXCEPT !.skip = f.x, !.line = 230]
      [] f.line = 230 -> Assign(CallModule(f, blk.conv1, "conv1", f.out, train), "out", 232)
      [] f.line = 232 -> Assign(CallModule(f, blk.bn2, "bn2", f.out, train), "out", 233)
      [] f.line = 233 -> Assign(CallModule(f, blk.relu, "relu", f.out, train), "out", 234)
      [] f.line = 234 -> Assign(CallModule(f, blk.dropout, "dropout", f.out, train),
                                "out", 235)
      [] f.line = 235 -> Assign(CallModule(f, blk.conv2, "conv2", f.out, train), "out", 237)
      [] f.line = 237 -> Goto(AddInPlace(f, f.out, f.skip), 239)
      [] f.line = 239 -> [f EXCEPT !.ret = f.out, !.line = 0]

BasicBlockWRN16_8_first == 222

(***************************************************************************)
(* A whole call of a block's forward: its statements run to the return or  *)
(* to the exception.  The result is the final frame.                       *)
(***************************************************************************)
RECURSIVE BasicBlock_run(_, _, _)
BasicBlock_run(blk, f, train) ==
    IF f.line = 0 THEN f
    ELSE BasicBlock_run(blk, BasicBlock_forward_step(blk, f, train), train)

BasicBlock_forward(blk, x, train) ==
    BasicBlock_run(blk, NewFrame(x, BasicBlock_first), train)

RECURSIVE BasicBlockWRN16_8_run(_, _, _)
BasicBlockWRN16_8_run(blk, f, train) ==
    IF f.line = 0 THEN f
    ELSE BasicBlockWRN16_8_run(blk, BasicBlockWRN16_8_forward_step(blk, f, train), train)

BasicBlockWRN16_8_forward(blk, x, train) ==
    BasicBlockWRN16_8_run(blk, NewFrame(x, BasicBlockWRN16_8_first), train)

\* the shape a finished block call returns, or its exception
Returned(f) == IF f.err # "none" THEN Raise(f.err) ELSE Ok(f.mem[f.ret].shape)

\* nn.Sequential of blocks (a layer made by _make_layer)
RECURSIVE ApplyBlocks(_, _, _)
ApplyBlocks(blocks, x, train) ==
    IF blocks = <<>> THEN Ok(x)
    ELSE LET b == Head(blocks)
             r == Returned(IF b.cls = "BasicBlock"
                           THEN BasicBlock_forward(b, x, train)
                           ELSE BasicBlockWRN16_8_forward(b, x, train))
         IN  IF r.err # "none" THEN r ELSE ApplyBlocks(Tail(blocks), r.shape, train)


(***************************************************************************)
(* Top models.  A constructor yields the object's attributes (a record     *)
(* whose domain is the set of attributes that were set) and the exception  *)
(* it raised, if any.  The frame of a top model's forward holds the local  *)
(* x (a shape), the modules applied so far (trace), the line, the error.   *)
(***************************************************************************)
Built(obj)          == [self |-> obj, err |-> "none"]
Failed(obj, kind)   == [self |-> obj, err |-> kind]

NetFrame(x, first)  == [line |-> first, err |-> "none", x |-> x, trace |-> <<>>]

\* x = self.<name>(x), then continue at `line`
NetCall(f, r, name, line) ==
    IF r.err # "none" THEN Exit(f, r.err)
    ELSE [f EXCEPT !.x = r.shape, !.trace = Append(@, name), !.line = line]

(***************************************************************************)
(* sn_MLP                                                                  *)
(***************************************************************************)
sn_MLP_init(num_classes, n_coefficients, M_coefficient, N_coefficient) ==
    LET s28 == [num_classes |-> num_classes]
        fc1 == Linear(3 * M_coefficient * N_coefficient * n_coefficients, 512)
    IN  \* line 33 reads self.n_coefficients
        IF "n_coefficients" \notin DOMAIN s28 THEN Failed(s28, "AttributeError")
        ELSE Built([num_classes |-> num_classes,
                    layers |-> Sequential(<<
                        BatchNorm2d(s28.n_coefficients * 3, TRUE),
                        fc1, ReLU(FALSE),
                        Linear(512, 256), ReLU(FALSE),
                        Linear(256, 128), ReLU(FALSE),
                        Linear(128, 64), ReLU(FALSE),
                        Linear(64, num_classes)>>)])

\* sn_MLP.forward on an object whose layers are `layers`
sn_MLP_forward(layers, x, train) == ApplySeq(layers.layers, Flatten(x), train)

(***************************************************************************)
(* sn_CNN                                                                  *)
(***************************************************************************)
\* variant of _make_layer: every block of the layer is given the projection
sn_CNN__make_layer_DownsampleAll(inplanes, planes, blocks, stride) ==
    LET downsample ==
            IF stride # 1 \/ inplanes # planes
            THEN <<Sequential(<<Conv2d(inplanes, planes, 1, stride, 0),
                                BatchNorm2d(planes, TRUE)>>)>>
            ELSE <<>>
    IN  [layer    |-> [i \in 1..(IF blocks > 1 THEN blocks ELSE 1) |->
                          IF i = 1
                          THEN BasicBlock_init(inplanes, planes, stride, downsample)
                          ELSE BasicBlock_init(planes, planes, 1, downsample)],
         inplanes |-> planes]

\* self._make_layer(BasicBlock, planes, blocks, stride) with self.inplanes =
\* inplanes: the layer made and the new self.inplanes
sn_CNN__make_layer(inplanes, planes, blocks, stride) ==
    LET downsample ==
            IF stride # 1 \/ inplanes # planes
            THEN <<Sequential(<<Conv2d(inplanes, planes, 1, stride, 0),
                                BatchNorm2d(planes, TRUE)>>)>>
            ELSE <<>>
    IN  [layer    |-> [i \in 1..(IF blocks > 1 THEN blocks ELSE 1) |->
                          IF i = 1
                          THEN BasicBlock_init(inplanes, planes, stride, downsample)
                          ELSE BasicBlock_init(planes, planes, 1, <<>>)],
         inplanes |-> planes]

\* variant of __init__: init_conv is built for 3 channels in both modes
sn_CNN_init_ConvFromRGB(in_channels, k, n, num_classes, standard) ==
    LET ichannels == 16 * k
        l1 == sn_CNN__make_layer(16 * k, 16 * k, n, 1)
        l2 == sn_CNN__make_layer(IF standard THEN l1.inplanes ELSE 16 * k, 32 * k, n, 1)
        l3 == sn_CNN__make_layer(l2.inplanes, 64 * k, n, 1)
        common == [bn0         |-> BatchNorm2d(in_channels * 3, TRUE),
                   inplanes    |-> l3.inplanes,
                   ichannels   |-> ichannels,
                   in_channels |-> in_channels,
                   num_classes |-> num_classes,
                   standard    |-> standard,
                   init_conv   |-> Sequential(<<Conv2d(3, ichannels, 3, 1, 1),
                                                BatchNorm2d(ichannels, TRUE),
                                                ReLU(TRUE)>>),
                   layer2      |-> l2.layer,
                   layer3      |-> l3.layer,
                   avgpool     |-> AdaptiveAvgPool2d(2),
                   fc          |-> Linear(64 * k * 4, num_classes)]
    IN  Built(IF standard
              THEN [a \in DOMAIN common \cup {"layer1"} |->
                       IF a = "layer1" THEN l1.layer ELSE common[a]]
              ELSE [a \in DOMAIN common \cup {"K"} |->
                       IF a = "K" THEN in_channels * 3 ELSE common[a]])

sn_CNN_init(in_channels, k, n, num_classes, standard) ==
    LET ichannels == 16 * k
        l1 == sn_CNN__make_layer(16 * k, 16 * k, n, 1)
        l2 == sn_CNN__make_layer(IF standard THEN l1.inplanes ELSE 16 * k, 32 * k, n, 1)
        l3 == sn_CNN__make_layer(l2.inplanes, 64 * k, n, 1)
        common == [bn0         |-> BatchNorm2d(in_channels * 3, TRUE),
                   inplanes    |-> l3.inplanes,
                   ichannels   |-> ichannels,
                   in_channels |-> in_channels,
                   num_classes |-> num_classes,
                   standard    |-> standard,
                   init_conv   |->
                       IF standard
                       THEN Sequential(<<Conv2d(3, ichannels, 3, 1, 1),
                                         BatchNorm2d(ichannels, TRUE),
                                         ReLU(TRUE)>>)
                       ELSE Sequential(<<BatchNorm2d(in_channels * 3, FALSE),
                                         Conv2d(in_channels * 3, ichannels, 3, 1, 1),
                                         BatchNorm2d(ichannels, TRUE),
                                         ReLU(TRUE)>>),
                   layer2      |-> l2.layer,
                   layer3      |-> l3.layer,
                   avgpool     |-> AdaptiveAvgPool2d(2),
                   fc          |-> Linear(64 * k * 4, num_classes)]
    IN  Built(IF standard
              THEN [a \in DOMAIN common \cup {"layer1"} |->
                       IF a = "layer1" THEN l1.layer ELSE common[a]]
              ELSE [a \in DOMAIN common \cup {"K"} |->
                       IF a = "K" THEN in_channels * 3 ELSE common[a]])

\* variant of forward: the first residual layer is applied in both modes
sn_CNN_forward_Layer1Always(obj, f, train) ==
    CASE f.line = 155 -> Goto(f, 157)
      [] f.line = 157 -> NetCall(f, Apply(obj.bn0, f.x, train), "bn0", 158)
      [] f.line = 158 -> NetCall(f, ApplySeq(obj.init_conv.layers, f.x, train),
                                 "init_conv", 160)
      [] f.line = 160 -> NetCall(f, ApplyBlocks(IF "layer1" \in DOMAIN obj
                                                THEN obj.layer1 ELSE obj.layer2,
                                                f.x, train), "layer1", 161)
      [] f.line = 161 -> NetCall(f, ApplyBlocks(obj.layer2, f.x, train), "layer2", 162)
      [] f.line = 162 -> NetCall(f, ApplyBlocks(obj.layer3, f.x, train), "layer3", 163)
      [] f.line = 163 -> NetCall(f, Apply(obj.avgpool, f.x, train), "avgpool", 164)
      [] f.line = 164 -> NetCall(f, Ok(Flatten(f.x)), "view", 165)
      [] f.line = 165 -> NetCall(f, Apply(obj.fc, f.x, train), "fc", 166)
      [] f.line = 166 -> Goto(f, 0)

\* one statement of sn_CNN.forward
sn_CNN_forward_step(obj, f, train) ==
    CASE f.line = 155 -> Goto(f, 157)
      [] f.line = 157 -> NetCall(f, Apply(obj.bn0, f.x, train), "bn0", 158)
      [] f.line = 158 -> NetCall(f, ApplySeq(obj.init_conv.layers, f.x, train),
                                 "init_conv", 159)
      [] f.line = 159 -> Goto(f, IF obj.standard THEN 160 ELSE 161)
      [] f.line = 160 -> IF "layer1" \in DOMAIN obj
                         THEN NetCall(f, ApplyBlocks(obj.layer1, f.x, train),
                                      "layer1", 161)
                         ELSE Exit(f, "AttributeError")
      [] f.line = 161 -> NetCall(f, ApplyBlocks(obj.layer2, f.x, train), "layer2", 162)
      [] f.line = 162 -> NetCall(f, ApplyBlocks(obj.layer3, f.x, train), "layer3", 163)
      [] f.line = 163 -> NetCall(f, Apply(obj.avgpool, f.x, train), "avgpool", 164)
      [] f.line = 164 -> NetCall(f, Ok(Flatten(f.x)), "view", 165)
      [] f.line = 165 -> NetCall(f, Apply(obj.fc, f.x, train), "fc", 166)
      [] f.line = 166 -> Goto(f, 0)

sn_CNN_first == 155


(***************************************************************************)
(* sn_LinearLayer                                                          *)
(***************************************************************************)
\* variant of __init__: fc1 is sized without the factor 3
sn_LinearLayer_init_NoRGBFactor(num_classes, n_coefficients, M_coefficient, N_coefficient) ==
    Built([n_coefficients |-> n_coefficients,
           num_classes    |-> num_classes,
           fc1 |-> Linear(M_coefficient * N_coefficient * n_coefficients, num_classes),
           bn0 |-> BatchNorm2d(n_coefficients * 3, TRUE)])

sn_LinearLayer_init(num_classes, n_coefficients, M_coefficient, N_coefficient) ==
    Built([n_coefficients |-> n_coefficients,
           num_classes    |-> num_classes,
           fc1 |-> Linear(3 * M_coefficient * N_coefficient * n_coefficients, num_classes),
           bn0 |-> BatchNorm2d(n_coefficients * 3, TRUE)])

\* one statement of sn_LinearLayer.forward
sn_LinearLayer_forward_step(obj, f, train) ==
    CASE f.line = 182 -> NetCall(f, Apply(obj.bn0, f.x, train), "bn0", 183)
      [] f.line = 183 -> NetCall(f, Ok(Flatten(f.x)), "reshape", 184)
      [] f.line = 184 -> NetCall(f, Apply(obj.fc1, f.x, train), "fc1", 185)
      [] f.line = 185 -> Goto(f, 0)

sn_LinearLayer_first == 182

(***************************************************************************)
(* WideResNet16_8                                                          *)
(***************************************************************************)
\* variant of _make_layer: every block of the layer gets the stride
WideResNet16_8__make_layer_StrideEveryBlock(inplanes, planes, blocks, stride) ==
    [layer    |-> [i \in 1..blocks |->
                      BasicBlockWRN16_8_init(IF i = 1 THEN inplanes ELSE planes,
                                             planes, stride)],
     inplanes |-> IF blocks >= 1 THEN planes ELSE inplanes]

\* self._make_layer(planes, blocks, dropout, stride) with self.inplanes =
\* inplanes: the layer made and the new self.inplanes
WideResNet16_8__make_layer(inplanes, planes, blocks, stride) ==
    [layer    |-> [i \in 1..blocks |->
                      BasicBlockWRN16_8_init(IF i = 1 THEN inplanes ELSE planes,
                                             planes,
                                             IF i = 1 THEN stride ELSE 1)],
     inplanes |-> IF blocks >= 1 THEN planes ELSE inplanes]

\* the loop of lines 260-262 re-initialises the convolutions' weights and
\* changes no shape
WideResNet16_8_init(depth, width, num_classes) ==
    LET layer == (depth - 4) \div 6
        l1 == WideResNet16_8__make_layer(16, 16 * width, layer, 1)
        l2 == WideResNet16_8__make_layer(l1.inplanes, 32 * width, layer, 2)
        l3 == WideResNet16_8__make_layer(l2.inplanes, 64 * width, layer, 2)
    IN  Built([inplanes |-> l3.inplanes,
               conv     |-> conv3x3(3, 16, 1),
               layer1   |-> l1.layer,
               layer2   |-> l2.layer,
               layer3   |-> l3.layer,
               bn       |-> BatchNorm2d(64 * width, TRUE),
               relu     |-> ReLU(TRUE),
               avgpool  |-> AdaptiveAvgPool2d(1),
               fc       |-> Linear(64 * width, num_classes)])

\* one statement of WideResNet16_8.forward
WideResNet16_8_forward_step(obj, f, train) ==
    CASE f.line = 273 -> NetCall(f, Apply(obj.conv, f.x, train), "conv", 275)
      [] f.line = 275 -> NetCall(f, ApplyBlocks(obj.layer1, f.x, train), "layer1", 276)
      [] f.line = 276 -> NetCall(f, ApplyBlocks(obj.layer2, f.x, train), "layer2", 277)
      [] f.line = 277 -> NetCall(f, ApplyBlocks(obj.layer3, f.x, train), "layer3", 279)
      [] f.line = 279 -> NetCall(f, Apply(obj.bn, f.x, train), "bn", 280)
      [] f.line = 280 -> NetCall(f, Apply(obj.relu, f.x, train), "relu", 281)
      [] f.line = 281 -> NetCall(f, Apply(obj.avgpool, f.x, train), "avgpool", 282)
      [] f.line = 282 -> NetCall(f, Ok(Flatten(f.x)), "view", 283)
      [] f.line = 283 -> NetCall(f, Apply(obj.fc, f.x, train), "fc", 285)
      [] f.line = 285 -> Goto(f, 0)

WideResNet16_8_first == 273

(***************************************************************************)
(* Parameters, in the order of nn.Module.parameters(): each entry is the   *)
(* element count (numel) of one parameter tensor.                          *)
(***************************************************************************)
LayerParams(m) ==
    CASE m.op = "Conv2d"      -> <<m.cout * m.cin * m.kernel_size * m.kernel_size>>
      [] m.op = "BatchNorm2d" -> IF m.affine THEN <<m.num_features, m.num_features>>
                                 ELSE <<>>
      [] m.op = "Linear"      -> <<m.out_features * m.in_features, m.out_features>>
      [] OTHER                -> <<>>

BlockWRNParams(b) ==
    LayerParams(b.bn1) \o LayerParams(b.conv1) \o LayerParams(b.bn2)
        \o LayerParams(b.conv2)
        \o (IF b.use_conv1x1 THEN LayerParams(b.shortcut) ELSE <<>>)

RECURSIVE BlocksWRNParams(_)
BlocksWRNParams(blocks) ==
    IF blocks = <<>> THEN <<>>
    ELSE BlockWRNParams(Head(blocks)) \o BlocksWRNParams(Tail(blocks))

WideResNet16_8_parameters(obj) ==
    LayerParams(obj.conv) \o BlocksWRNParams(obj.layer1) \o BlocksWRNParams(obj.layer2)
        \o BlocksWRNParams(obj.layer3) \o LayerParams(obj.bn) \o LayerParams(obj.fc)

RECURSIVE Sum(_)
Sum(s) == IF s = <<>> THEN 0 ELSE Head(s) + Sum(Tail(s))

\* WideResNet16_8.countLearnableParams: numel summed over self.parameters()
countLearnableParams(obj) == Sum(WideResNet16_8_parameters(obj))


(***************************************************************************)
(* State.                                                                  *)
(*   cls       the class of the object under construction or use           *)
(*   args      the arguments its constructor was called with               *)
(*   self      the object's attributes                                     *)
(*   training  nn.Module.training                                          *)
(*   phase     "new", "ready" (constructed), "failed" (the constructor     *)
(*             raised), "running" (inside forward), "done" (forward ended) *)
(*   inp       the shape forward was called with                           *)
(*   frame     the call frame of forward; frame.err is the last exception  *)
(*   made      the last direct call of sn_CNN._make_layer                  *)
(*   frozen    indices (in parameters() order) with requires_grad = False  *)
(*   count     the last call of countLearnableParams: its result and the   *)
(*             frozen parameters at the time of the call                   *)
(***************************************************************************)
Init ==
    /\ cls = "none"
    /\ args = <<>>
    /\ self = <<>>
    /\ training = TRUE
    /\ phase = "new"
    /\ inp = <<>>
    /\ frame = NoFrame
    /\ made = [called |-> FALSE]
    /\ frozen = {}
    /\ count = [called |-> FALSE]

\* cls(...) : the constructor ran, and either returned or raised
Construct(c, a, r) ==
    /\ phase = "new"
    /\ cls' = c
    /\ args' = a
    /\ self' = r.self
    /\ training' = TRUE
    /\ phase' = IF r.err = "none" THEN "ready" ELSE "failed"
    /\ frame' = [line |-> 0, err |-> r.err]
    /\ UNCHANGED <<inp, made, frozen, count>>

New_sn_MLP ==
    \E nc \in Pos(MaxClasses), n \in Pos(MaxCoef), M \in Pos(MaxSide), N \in Pos(MaxSide) :
        Construct("sn_MLP",
                  [num_classes |-> nc, n_coefficients |-> n,
                   M_coefficient |-> M, N_coefficient |-> N],
                  sn_MLP_init(nc, n, M, N))

New_sn_CNN ==
    \E c \in Pos(MaxCoef), k \in Pos(MaxK), n \in 0..MaxN, nc \in Pos(MaxClasses),
       standard \in BOOLEAN :
        Construct("sn_CNN",
                  [in_channels |-> c, k |-> k, n |-> n, num_classes |-> nc,
                   standard |-> standard],
                  sn_CNN_init(c, k, n, nc, standard))

New_sn_LinearLayer ==
    \E nc \in Pos(MaxClasses), n \in Pos(MaxCoef), M \in Pos(MaxSide), N \in Pos(MaxSide) :
        Construct("sn_LinearLayer",
                  [num_classes |-> nc, n_coefficients |-> n,
                   M_coefficient |-> M, N_coefficient |-> N],
                  sn_LinearLayer_init(nc, n, M, N))

\* a block built on its own, without a downsample module or with the
\* projection _make_layer would give it
New_BasicBlock ==
    \E inplanes \in Pos(MaxPlanes), planes \in Pos(MaxPlanes), stride \in Pos(MaxStride) :
        \E downsample \in {<<>>, <<Sequential(<<Conv2d(inplanes, planes, 1, stride, 0),
                                                 BatchNorm2d(planes, TRUE)>>)>>} :
            Construct("BasicBlock",
                      [inplanes |-> inplanes, planes |-> planes, stride |-> stride,
                       downsample |-> downsample],
                      Built(BasicBlock_init(inplanes, planes, stride, downsample)))

New_BasicBlockWRN16_8 ==
    \E inplanes \in Pos(MaxPlanes), planes \in Pos(MaxPlanes), stride \in Pos(MaxStride) :
        Construct("BasicBlockWRN16_8",
                  [inplanes |-> inplanes, planes |-> planes, stride |-> stride],
                  Built(BasicBlockWRN16_8_init(inplanes, planes, stride)))

\* depths on both sides of every change of (depth - 4) // 6
Depths == {d \in 4..MaxDepth : d % 3 = 1}

New_WideResNet16_8 ==
    \E depth \in Depths, width \in Pos(MaxWidth), nc \in Pos(MaxClasses) :
        Construct("WideResNet16_8",
                  [depth |-> depth, width |-> width, num_classes |-> nc],
                  WideResNet16_8_init(depth, width, nc))

\* nn.Module.eval() and nn.Module.train()
Eval ==
    /\ phase = "ready"
    /\ training' = FALSE
    /\ UNCHANGED <<cls, args, self, phase, inp, frame, made, frozen, count>>

Train ==
    /\ phase = "ready"
    /\ training' = TRUE
    /\ UNCHANGED <<cls, args, self, phase, inp, frame, made, frozen, count>>

\* the channel counts of the inputs tried on an object
InChannels ==
    CASE cls = "sn_CNN"            -> {3, 3 * self.in_channels}
      [] cls = "sn_LinearLayer"    -> {3, 3 * self.n_coefficients}
      [] cls = "BasicBlock"        -> {self.conv1.cin}
      [] cls = "BasicBlockWRN16_8" -> {self.conv1.cin}
      [] cls = "WideResNet16_8"    -> {3}
      [] OTHER                     -> {}

\* spatial sizes: small ones and, for the image model, sizes that two
\* stride-2 stages leave at 1 or at more than 1
Sides ==
    IF cls = "WideResNet16_8" THEN Pos(MaxSide) \cup {3 + s : s \in Pos(MaxSide)}
    ELSE Pos(MaxSide)

Inputs ==
    {<<b, c, h, w>> : b \in Pos(MaxBatch), c \in InChannels, h \in Sides, w \in Sides}

\* self(x): forward is entered
Call_forward ==
    /\ phase = "ready"
    /\ \E x \in Inputs :
          /\ inp' = x
          /\ frame' = CASE cls = "sn_CNN" -> NetFrame(x, sn_CNN_first)
                        [] cls = "sn_LinearLayer" -> NetFrame(x, sn_LinearLayer_first)
                        [] cls = "WideResNet16_8" -> NetFrame(x, WideResNet16_8_first)
                        [] cls = "BasicBlock" -> NewFrame(x, BasicBlock_first)
                        [] cls = "BasicBlockWRN16_8" ->
                               NewFrame(x, BasicBlockWRN16_8_first)
    /\ phase' = "running"
    /\ UNCHANGED <<cls, args, self, training, made, frozen, count>>

\* forward advanced by one statement to frame f
Advance(f) ==
    /\ frame' = f
    /\ phase' = IF f.line = 0 THEN "done" ELSE "running"
    /\ UNCHANGED <<cls, args, self, training, inp, made, frozen, count>>

sn_CNN_forward ==
    /\ phase = "running" /\ cls = "sn_CNN"
    /\ Advance(sn_CNN_forward_step(self, frame, training))

sn_LinearLayer_forward ==
    /\ phase = "running" /\ cls = "sn_LinearLayer"
    /\ Advance(sn_LinearLayer_forward_step(self, frame, training))

WideResNet16_8_forward ==
    /\ phase = "running" /\ cls = "WideResNet16_8"
    /\ Advance(WideResNet16_8_forward_step(self, frame, training))

BasicBlock_forward_stmt ==
    /\ phase = "running" /\ cls = "BasicBlock"
    /\ Advance(BasicBlock_forward_step(self, frame, training))

BasicBlockWRN16_8_forward_stmt ==
    /\ phase = "running" /\ cls = "BasicBlockWRN16_8"
    /\ Advance(BasicBlockWRN16_8_forward_step(self, frame, training))

\* a direct call self._make_layer(BasicBlock, planes, blocks, stride)
Call__make_layer ==
    /\ phase = "ready" /\ cls = "sn_CNN"
    /\ \E planes \in {16 * k : k \in Pos(MaxK)}, blocks \in 0..MaxN,
          stride \in Pos(MaxStride) :
          LET r == sn_CNN__make_layer(self.inplanes, planes, blocks, stride)
          IN  /\ made' = [called |-> TRUE, inplanes |-> self.inplanes,
                          planes |-> planes, blocks |-> blocks, stride |-> stride,
                          layer |-> r.layer]
              /\ self' = [self EXCEPT !.inplanes = r.inplanes]
    /\ UNCHANGED <<cls, args, training, phase, inp, frame, frozen, count>>

\* p.requires_grad = False on the i-th parameter
Freeze ==
    /\ phase = "ready" /\ cls = "WideResNet16_8"
    /\ Cardinality(frozen) < MaxFrozen
    /\ \E i \in 1..Len(WideResNet16_8_parameters(self)) : frozen' = frozen \cup {i}
    /\ UNCHANGED <<cls, args, self, training, phase, inp, frame, made, count>>

Call_countLearnableParams ==
    /\ phase = "ready" /\ cls = "WideResNet16_8"
    /\ count' = [called |-> TRUE, value |-> countLearnableParams(self),
                 frozen |-> frozen]
    /\ UNCHANGED <<cls, args, self, training, phase, inp, frame, made, frozen>>

(***************************************************************************)
(* Specifications.  Spec: construction, mode changes and forward passes of *)
(* every class.  SpecLayers: sn_CNN and calls of its _make_layer.          *)
(* SpecParams: WideResNet16_8, frozen parameters and the parameter count.  *)
(***************************************************************************)
Next ==
    \/ New_sn_MLP
    \/ New_sn_CNN
    \/ New_sn_LinearLayer
    \/ New_BasicBlock
    \/ New_BasicBlockWRN16_8
    \/ New_WideResNet16_8
    \/ Eval
    \/ Train
    \/ Call_forward
    \/ sn_CNN_forward
    \/ sn_LinearLayer_forward
    \/ WideResNet16_8_forward
    \/ BasicBlock_forward_stmt
    \/ BasicBlockWRN16_8_forward_stmt

Spec == Init /\ [][Next]_vars

NextLayers ==
    \/ New_sn_CNN
    \/ Call__make_layer

SpecLayers == Init /\ [][NextLayers]_vars

NextParams ==
    \/ New_WideResNet16_8
    \/ Freeze
    \/ Call_countLearnableParams

SpecParams == Init /\ [][NextParams]_vars


(***************************************************************************)
(* Properties.                                                             *)
(***************************************************************************)
IsPrefix(a, b) == Len(a) <= Len(b) /\ \A i \in 1..Len(a) : a[i] = b[i]

InForward == phase \in {"running", "done"}

\* every batch norm of the call sees more than one value per channel, or
\* the module is in eval mode
ManyValues(b, h, w) == ~training \/ b * h * w > 1

\* C1: constructing sn_MLP succeeds for all positive arguments, and its
\* forward on (B, 3*n_coefficients, M_coefficient, N_coefficient) returns
\* (B, num_classes).
C1_Claim ==
    cls = "sn_MLP" /\ phase # "new" =>
        /\ phase = "ready"
        /\ frame.err = "none"
        /\ \A b \in Pos(MaxBatch) :
              sn_MLP_forward(self.layers,
                             <<b, 3 * args.n_coefficients, args.M_coefficient,
                               args.N_coefficient>>, training)
                  = Ok(<<b, args.num_classes>>)

sn_CNN_trace == <<"bn0", "init_conv", "layer2", "layer3", "avgpool", "view", "fc">>

\* what C2 says of a forward pass of a non-standard sn_CNN on a scattering
\* input: no exception, the modules in order, the channel counts
\* 3*in_channels -> 16k -> 32k -> 64k, 64*k*4 flattened values, and
\* (B, num_classes) returned
C2_Holds ==
    /\ frame.err = "none"
    /\ IsPrefix(frame.trace, sn_CNN_trace)
    /\ frame.line \in {155, 157, 158} => frame.x[2] = 3 * args.in_channels
    /\ frame.line \in {159, 161} => frame.x[2] = 16 * args.k
    /\ frame.line = 162 => frame.x[2] = 32 * args.k
    /\ frame.line = 163 => frame.x[2] = 64 * args.k
    /\ frame.line = 165 => frame.x = <<inp[1], 64 * args.k * 4>>
    /\ frame.line = 166 => frame.x = <<inp[1], args.num_classes>>
    /\ phase = "done" => /\ frame.trace = sn_CNN_trace
                         /\ frame.x = <<inp[1], args.num_classes>>

C2_Case ==
    /\ cls = "sn_CNN" /\ InForward
    /\ ~args.standard /\ args.n >= 1
    /\ inp[2] = 3 * args.in_channels

\* C2 as stated: for every input (B, 3*in_channels, H, W) with H, W >= 1 the
\* non-standard sn_CNN applies bn0, init_conv, layer2, layer3, avgpool,
\* flatten, fc with matching channel counts and returns (B, num_classes).
C2_Original == C2_Case => C2_Holds

\* C2 amended: the same, for every input with B*H*W > 1 and, in eval mode,
\* for every input.
C2_Amended == C2_Case /\ ManyValues(inp[1], inp[3], inp[4]) => C2_Holds

C2_Witness ==
    /\ C2_Case /\ phase = "done" /\ frame.err = "none"
    /\ training /\ args.in_channels > 1 /\ args.n > 1
    /\ frame.x = <<inp[1], args.num_classes>>

sn_LinearLayer_trace == <<"bn0", "reshape", "fc1">>

C4_Holds ==
    /\ frame.err = "none"
    /\ self.bn0.num_features = 3 * args.n_coefficients
    /\ IsPrefix(frame.trace, sn_LinearLayer_trace)
    /\ frame.line = 183 => frame.x = inp
    /\ frame.line = 184 =>
          /\ frame.x = <<inp[1], 3 * args.M_coefficient * args.N_coefficient
                                   * args.n_coefficients>>
          /\ frame.x[2] = self.fc1.in_features
    /\ phase = "done" => /\ frame.trace = sn_LinearLayer_trace
                         /\ frame.x = <<inp[1], args.num_classes>>

C4_Case ==
    /\ cls = "sn_LinearLayer" /\ InForward
    /\ inp = <<inp[1], 3 * args.n_coefficients, args.M_coefficient, args.N_coefficient>>

\* C4 as stated: for every input (B, 3*n_coefficients, M_coefficient,
\* N_coefficient) sn_LinearLayer applies batch norm over 3*n_coefficients
\* channels, flattens to 3*M*N*n values (fc1's input size), applies fc1 and
\* returns (B, num_classes).
C4_Original == C4_Case => C4_Holds

\* C4 amended: the same, for every input with B*M*N > 1 and, in eval mode,
\* for every input.
C4_Amended == C4_Case /\ ManyValues(inp[1], inp[3], inp[4]) => C4_Holds

C4_Witness ==
    /\ C4_Case /\ phase = "done" /\ frame.err = "none" /\ training
    /\ args.n_coefficients > 1 /\ args.M_coefficient # args.N_coefficient
    /\ frame.x = <<inp[1], args.num_classes>>


\* the operations BasicBlock.forward applies to its result, in order; the
\* operand of the addition stands between "add(" and ")"
BasicBlock_ops ==
    <<"x", "conv1", "bn1", "relu", "conv2", "bn2", "add(">>
        \o (IF args.downsample # <<>> THEN <<"x", "downsample">> ELSE <<"x">>)
        \o <<")", "relu">>

\* C3: BasicBlock.forward applies conv1, bn1, relu, conv2, bn2, adds the
\* skip term, then applies relu once more; the skip term is downsample(x) of
\* the original input x when a downsample module was given and x itself
\* otherwise; nothing is applied between bn2 and the addition.
C3_BasicBlockOrder ==
    cls = "BasicBlock" /\ InForward =>
        /\ frame.mem[frame.x].ops = <<"x">>
        /\ frame.out # 0 => IsPrefix(frame.mem[frame.out].ops, BasicBlock_ops)
        /\ frame.line \in {92, 94} =>
              frame.mem[frame.skip].ops
                  = IF args.downsample # <<>> THEN <<"x", "downsample">> ELSE <<"x">>
        /\ phase = "done" /\ frame.err = "none" =>
              frame.mem[frame.ret].ops = BasicBlock_ops

C3_Witness ==
    /\ cls = "BasicBlock" /\ phase = "done" /\ frame.err = "none"
    /\ args.downsample # <<>> /\ args.stride > 1 /\ args.inplanes # args.planes
    /\ frame.mem[frame.ret].ops = BasicBlock_ops

C8_UseConv1x1 == args.stride # 1 \/ args.inplanes # args.planes

BasicBlockWRN16_8_ops ==
    <<"x", "bn1", "relu", "conv1", "bn2", "relu", "dropout", "conv2", "add(">>
        \o (IF C8_UseConv1x1 THEN <<"x", "bn1", "relu", "shortcut">> ELSE <<"x">>)
        \o <<")">>

\* C8: BasicBlockWRN16_8.forward applies bn1, relu, conv1, bn2, relu,
\* dropout, conv2 and then adds the shortcut, with no activation after the
\* addition; the 1x1 shortcut convolution exists exactly when stride != 1 or
\* inplanes != planes, and is then applied to relu(bn1(x)); otherwise the
\* shortcut is the raw input x.
C8_PreActivationOrder ==
    cls = "BasicBlockWRN16_8" /\ phase # "new" =>
        /\ ("shortcut" \in DOMAIN self) = C8_UseConv1x1
        /\ self.use_conv1x1 = C8_UseConv1x1
        /\ InForward =>
              /\ frame.mem[frame.x].ops = <<"x">>
              /\ frame.out # 0 =>
                    IsPrefix(frame.mem[frame.out].ops, BasicBlockWRN16_8_ops)
              /\ frame.skip # 0 =>
                    frame.mem[frame.skip].ops
                        = IF C8_UseConv1x1 THEN <<"x", "bn1", "relu", "shortcut">>
                          ELSE <<"x">>
              /\ phase = "done" /\ frame.err = "none" =>
                    frame.mem[frame.ret].ops = BasicBlockWRN16_8_ops

C8_Witness ==
    /\ cls = "BasicBlockWRN16_8" /\ phase = "done" /\ frame.err = "none"
    /\ args.stride = 1 /\ args.inplanes # args.planes
    /\ frame.mem[frame.skip].ops = <<"x", "bn1", "relu", "shortcut">>
    /\ frame.mem[frame.ret].ops = BasicBlockWRN16_8_ops


WRN_layers == <<self.layer1, self.layer2, self.layer3>>

\* C5, the topology: (depth - 4) // 6 blocks per stage (2 for depth 16),
\* stage outputs 16, 32, 64 times width, first-block strides 1, 2, 2 and
\* stride 1 for every later block
C5_Topology ==
    /\ \A j \in 1..3 :
          LET L      == WRN_layers[j]
              planes == <<16, 32, 64>>[j] * args.width
              stride == <<1, 2, 2>>[j]
          IN  /\ Len(L) = (args.depth - 4) \div 6
              /\ \A i \in 1..Len(L) :
                    /\ L[i].conv1.cout = planes
                    /\ L[i].conv2.cout = planes
                    /\ L[i].conv2.stride = 1
                    /\ L[i].conv1.stride = IF i = 1 THEN stride ELSE 1
    /\ args.depth = 16 => \A j \in 1..3 : Len(WRN_layers[j]) = 2

\* C5, the forward pass for depth >= 10: 64*width channels reach the final
\* batch norm and the fc layer, and (B, num_classes) is returned
C5_Forward ==
    /\ frame.err = "none"
    /\ self.bn.num_features = 64 * args.width
    /\ self.fc.in_features = 64 * args.width
    /\ frame.line = 276 => frame.x[2] = 16 * args.width
    /\ frame.line = 277 => frame.x[2] = 32 * args.width
    /\ frame.line = 279 => frame.x[2] = 64 * args.width
    /\ frame.line = 283 => frame.x = <<inp[1], 64 * args.width>>
    /\ phase = "done" => frame.x = <<inp[1], args.num_classes>>

C5_Case == cls = "WideResNet16_8" /\ InForward /\ args.depth >= 10 /\ inp[2] = 3

\* C5 as stated: WideResNet16_8(depth, width) has (depth - 4) // 6 blocks in
\* each of its three stages, which output 16, 32 and 64 times width channels
\* with first-block strides 1, 2, 2, and for depth >= 10 every input
\* (B, 3, H, W) reaches the final batch norm and fc with 64*width channels and
\* yields (B, num_classes).
C5_Original ==
    cls = "WideResNet16_8" /\ phase # "new" =>
        /\ C5_Topology
        /\ C5_Case => C5_Forward

\* C5 amended: the same topology, and the forward pass for every input whose
\* batch times the spatial size left by the two stride-2 stages, B *
\* ceil(H/4) * ceil(W/4), exceeds 1 and, in eval mode, for every input.
C5_Amended ==
    cls = "WideResNet16_8" /\ phase # "new" =>
        /\ C5_Topology
        /\ C5_Case /\ ManyValues(inp[1], (inp[3] + 3) \div 4, (inp[4] + 3) \div 4)
              => C5_Forward

C5_Witness ==
    /\ C5_Case /\ phase = "done" /\ frame.err = "none"
    /\ args.depth = 16 /\ args.width > 1 /\ training
    /\ inp[1] = 1 /\ inp[3] > 4
    /\ frame.x = <<inp[1], args.num_classes>>

\* numel summed over the parameters that require gradient
TrainableNumel(obj, fr) ==
    LET ps == WideResNet16_8_parameters(obj)
    IN  Sum([i \in 1..Len(ps) |-> IF i \in fr THEN 0 ELSE ps[i]])

\* C6: countLearnableParams returns the element count of exactly the
\* trainable parameters; frozen parameters contribute nothing.
C6_Claim ==
    count.called => count.value = TrainableNumel(self, count.frozen)

\* what C7 says of the layer a call _make_layer(BasicBlock, planes, blocks,
\* stride) makes when self.inplanes is inplanes
LayerOK(layer, inplanes, planes, blocks, stride) ==
    LET need == stride # 1 \/ inplanes # planes
    IN  /\ Len(layer) = IF blocks > 1 THEN blocks ELSE 1
        /\ (layer[1].downsample # <<>>) = need
        /\ need => layer[1].downsample
                       = <<Sequential(<<Conv2d(inplanes, planes, 1, stride, 0),
                                        BatchNorm2d(planes, TRUE)>>)>>
        /\ layer[1].conv1.cin = inplanes
        /\ layer[1].conv1.stride = stride
        /\ \A i \in 2..Len(layer) :
              /\ layer[i].downsample = <<>>
              /\ layer[i].conv1.cin = planes
              /\ layer[i].conv1.stride = 1
        /\ \A i \in 1..Len(layer) :
              LET f == BasicBlock_forward(layer[i], <<2, layer[i].conv1.cin, 2, 2>>,
                                          FALSE)
              IN  /\ f.err = "none"
                  /\ f.mem[f.skip].shape[2] = planes
                  /\ f.mem[f.ret].shape[2] = planes

\* C7: in sn_CNN a downsample projection is made exactly when stride != 1 or
\* inplanes != planes and given to the first block only, self.inplanes is
\* planes after the call, later blocks have inplanes = planes and no
\* downsample, the layer has max(blocks, 1) blocks, and every residual
\* addition is between operands of equal channel count.
C7_MakeLayer ==
    cls = "sn_CNN" /\ phase = "ready" =>
        /\ args.standard => LayerOK(self.layer1, 16 * args.k, 16 * args.k, args.n, 1)
        /\ LayerOK(self.layer2, 16 * args.k, 32 * args.k, args.n, 1)
        /\ LayerOK(self.layer3, 32 * args.k, 64 * args.k, args.n, 1)
        /\ ~made.called => self.inplanes = 64 * args.k
        /\ made.called =>
              /\ LayerOK(made.layer, made.inplanes, made.planes, made.blocks,
                         made.stride)
              /\ self.inplanes = made.planes

C7_Witness ==
    /\ cls = "sn_CNN" /\ made.called
    /\ made.blocks = 0 /\ Len(made.layer) = 1
    /\ made.stride # 1 /\ made.inplanes = made.planes
    /\ made.layer[1].downsample # <<>>

\* C9: layer1 exists and is applied exactly when standard = True, its first
\* block has no downsample (inplanes = planes = 16k), and in standard mode a
\* scattering input passes the channel checks of bn0 and init_conv if and
\* only if in_channels = 1.
C9_StandardMode ==
    cls = "sn_CNN" /\ phase # "new" =>
        /\ ("layer1" \in DOMAIN self) = args.standard
        /\ args.standard =>
              /\ self.layer1[1].downsample = <<>>
              /\ self.layer1[1].conv1.cin = 16 * args.k
              /\ self.layer1[1].conv1.cout = 16 * args.k
              /\ self.bn0.num_features = 3 * args.in_channels
              /\ self.init_conv.layers[1].cin = 3
        /\ InForward =>
              /\ (\E i \in 1..Len(frame.trace) : frame.trace[i] = "layer1")
                     => args.standard
              /\ args.standard /\ Len(frame.trace) > 2 => frame.trace[3] = "layer1"
              /\ args.standard /\ inp[2] = 3 * args.in_channels /\ phase = "done" =>
                    /\ args.in_channels = 1 => frame.err # "RuntimeError"
                    /\ args.in_channels = 1 /\ ManyValues(inp[1], inp[3], inp[4])
                           => frame.err = "none"
                    /\ args.in_channels # 1 =>
                           /\ frame.err # "none"
                           /\ IsPrefix(frame.trace, <<"bn0">>)
                           /\ frame.trace = <<"bn0">> => frame.err = "RuntimeError"

C9_Witness ==
    /\ cls = "sn_CNN" /\ phase = "done" /\ args.standard
    /\ args.in_channels # 1 /\ inp[2] = 3 * args.in_channels
    /\ frame.trace = <<"bn0">> /\ frame.err = "RuntimeError"

====
